---- MODULE Spec2Model ----
(***************************************************************************)
(* Model of orderfilter/validate_js.go: the browser (js/wasm) build of the *)
(* 0x-mesh order filter.  The filter sends a JSON document to a validator  *)
(* function living in the JavaScript global scope, inspects the object     *)
(* that function returns (fields fatal, success, errors) and maps it to a  *)
(* SchemaValidationResult, a boolean or an error.  A call into syscall/js  *)
(* that is applied to a value of the wrong type panics; the panic is not   *)
(* recovered anywhere in the file.                                         *)
(***************************************************************************)
EXTENDS Naturals, Sequences, FiniteSets

\* ------------------------------------------------------------------ bounds
\* longest errors array the validator function returns
MaxErrors == 2
\* number of concurrent pubsub dispatch workers
NumWorkers == 2

\* ------------------------------------------------------- JavaScript values
\* A js.Value of scalar type: its JavaScript type and its printed value.
Undefined == [t |-> "undefined", v |-> "undefined"]
Null == [t |-> "null", v |-> "null"]
JsString(s) == [t |-> "string", v |-> s]
JsBoolean(b) == [t |-> "boolean", v |-> IF b THEN "true" ELSE "false"]
JsNumber == [t |-> "number", v |-> "1"]

\* values the validator can put in the fatal field
FatalValues == {Undefined, Null, JsString("engine not initialized")}
\* values the validator can put in the success field
SuccessValues == {Undefined, JsBoolean(TRUE), JsBoolean(FALSE), JsString("true")}
\* values the validator can put in one slot of the errors array
ErrorItems == {JsString("missing field: makerAddress"), JsNumber}

RECURSIVE SeqsUpTo(_, _)
SeqsUpTo(S, n) ==
  IF n = 0 THEN {<<>>}
  ELSE LET shorter == SeqsUpTo(S, n - 1)
       IN shorter \cup {Append(s, x) : s \in {q \in shorter : Len(q) = n - 1}, x \in S}

\* the errors field: missing, null, or an array of at most n items
ErrorsValues(n) ==
  {[t |-> "undefined", elems |-> <<>>], [t |-> "null", elems |-> <<>>]}
    \cup {[t |-> "object", elems |-> es] : es \in SeqsUpTo(ErrorItems, n)}

\* what the validator function returned when it returned no object at all
NotAnObject ==
  [isObject |-> FALSE, fatal |-> Undefined, success |-> Undefined,
   errors |-> [t |-> "undefined", elems |-> <<>>]]

\* every value js.Global().Call(validator, doc) can return
ResponsesUpTo(n) ==
  {NotAnObject} \cup
  [isObject : {TRUE}, fatal : FatalValues, success : SuccessValues,
   errors : ErrorsValues(n)]

Responses == ResponsesUpTo(MaxErrors)
\* the answers of messageValidator in the concurrent runs: this path never
\* touches the errors field, so the field is always the empty array there
WorkerResponses ==
  {r \in Responses : r.isObject => r.errors = [t |-> "object", elems |-> <<>>]}

\* jsResult of a call that never reached the validator function
NotCalled ==
  [isObject |-> FALSE, fatal |-> [t |-> "none", v |-> "none"],
   success |-> [t |-> "none", v |-> "none"],
   errors |-> [t |-> "none", elems |-> <<>>]]

\* ------------------------------------------------------------ Go-side data
\* Text is a sequence of pieces; concatenation is \o.
NoError == <<>>

\* zeroex.SignedOrder values: the second cannot be encoded
Orders ==
  {[maker |-> "0xA", encodable |-> TRUE],
   [maker |-> "0xB", encodable |-> FALSE]}

\* order.MarshalJSON(): the JSON bytes, or an error
MarshalJSON(order) ==
  IF order.encodable
  THEN [data |-> <<"{\"makerAddress\":\"", order.maker, "\"}">>, err |-> NoError]
  ELSE [data |-> <<>>, err |-> <<"json: error calling MarshalJSON">>]

\* raw documents handed to the filter as bytes
Documents ==
  {MarshalJSON(o).data : o \in {x \in Orders : x.encodable}} \cup {<<"not json">>}

\* pubsub messages: sender and payload
Peers == {"peerA", "peerB"}
Messages == [from : Peers, Data : Documents]
\* the messages in flight in the concurrent runs: one per peer
WorkerMessages ==
  {[from |-> "peerA", Data |-> <<"not json">>],
   [from |-> "peerB", Data |-> MarshalJSON([maker |-> "0xA", encodable |-> TRUE]).data]}

\* the nil *SchemaValidationResult
NilResult == [isNil |-> TRUE, valid |-> FALSE, errors |-> <<>>]

\* js.Value.String(): the string itself, or "<type: value>" for other types
String(val) ==
  IF val.t = "string" THEN <<val.v>> ELSE <<"<", val.t, ": ", val.v, ">">>

\* fmt.Errorf("js error: %s", s)
JsErrorf(s) == <<"js error: ">> \o s

\* jsutil.IsNullOrUndefined
IsNullOrUndefined(val) == val.t \in {"null", "undefined"}

\* what a function hands back: status "return" or "panic"; for "return" the
\* Go result values (the unused ones at their zero value)
Returned(b, res, e) == [status |-> "return", bool |-> b, result |-> res, err |-> e]
Panicked == [status |-> "panic", bool |-> FALSE, result |-> NilResult, err |-> NoError]

\* variant of the loop that puts each new error in front
RECURSIVE CollectErrors_Prepending(_, _, _)
CollectErrors_Prepending(elems, i, errors) ==
  IF i < Len(elems)
  THEN CollectErrors_Prepending(elems, i + 1,
                                <<JsErrorf(String(elems[i + 1]))>> \o errors)
  ELSE errors

\* the errors slice built by the loop over jsErrors
RECURSIVE CollectErrors(_, _, _)
CollectErrors(elems, i, errors) ==
  IF i < Len(elems)
  THEN CollectErrors(elems, i + 1, Append(errors, JsErrorf(String(elems[i + 1]))))
  ELSE errors

\* an execution: the returned values, the fields of jsResult it read, the
\* validator calls it made and the log entries it wrote
Exec(r, rd, cs, lg) == [ret |-> r, reads |-> rd, calls |-> cs, logged |-> lg]

\* js.Global().Call(fn, js.ValueOf(string(doc)))
EngineCall(fn, doc) == [fn |-> fn, arg |-> doc]

\* js.Value.Get panics when the receiver is not a JavaScript object
GetPanics(r) == ~r.isObject
\* js.Value.Bool panics when the value is not a JavaScript boolean
BoolPanics(val) == val.t # "boolean"
Bool(val) == val.v = "true"
\* js.Value.Length panics when the value is not a JavaScript object
LengthPanics(val) == val.t # "object"

\* ------------------------------------------------------------- operations
\* variant that reports a fatal answer as an invalid document
ValidateOrderJSON_FatalAsInvalid(orderJSON, r) ==
  LET calls == <<EngineCall("orderValidator", orderJSON)>> IN
  IF GetPanics(r) THEN Exec(Panicked, {}, calls, <<>>)
  ELSE IF ~IsNullOrUndefined(r.fatal)
  THEN Exec(Returned(FALSE,
                     [isNil |-> FALSE, valid |-> FALSE,
                      errors |-> <<JsErrorf(String(r.fatal))>>],
                     NoError),
            {"fatal"}, calls, <<>>)
  ELSE IF BoolPanics(r.success) THEN Exec(Panicked, {"fatal", "success"}, calls, <<>>)
  ELSE IF LengthPanics(r.errors)
  THEN Exec(Panicked, {"fatal", "success", "errors"}, calls, <<>>)
  ELSE Exec(Returned(FALSE,
                     [isNil |-> FALSE, valid |-> Bool(r.success),
                      errors |-> CollectErrors(r.errors.elems, 0, <<>>)],
                     NoError),
            {"fatal", "success", "errors"}, calls, <<>>)

\* variant that adds an error of its own when an invalid document comes
\* with no errors
ValidateOrderJSON_SynthesizesError(orderJSON, r) ==
  LET calls == <<EngineCall("orderValidator", orderJSON)>> IN
  IF GetPanics(r) THEN Exec(Panicked, {}, calls, <<>>)
  ELSE IF ~IsNullOrUndefined(r.fatal)
  THEN Exec(Returned(FALSE, NilResult, JsErrorf(String(r.fatal))), {"fatal"}, calls, <<>>)
  ELSE IF BoolPanics(r.success) THEN Exec(Panicked, {"fatal", "success"}, calls, <<>>)
  ELSE IF LengthPanics(r.errors)
  THEN Exec(Panicked, {"fatal", "success", "errors"}, calls, <<>>)
  ELSE LET errors == CollectErrors(r.errors.elems, 0, <<>>) IN
       Exec(Returned(FALSE,
                     [isNil |-> FALSE, valid |-> Bool(r.success),
                      errors |-> IF ~Bool(r.success) /\ errors = <<>>
                                 THEN <<JsErrorf(<<"invalid order">>)>>
                                 ELSE errors],
                     NoError),
            {"fatal", "success", "errors"}, calls, <<>>)

\* Filter.ValidateOrderJSON, given the value r the validator returns
ValidateOrderJSON(orderJSON, r) ==
  LET calls == <<EngineCall("orderValidator", orderJSON)>> IN
  IF GetPanics(r) THEN Exec(Panicked, {}, calls, <<>>)
  ELSE IF ~IsNullOrUndefined(r.fatal)
  THEN Exec(Returned(FALSE, NilResult, JsErrorf(String(r.fatal))), {"fatal"}, calls, <<>>)
  ELSE IF BoolPanics(r.success) THEN Exec(Panicked, {"fatal", "success"}, calls, <<>>)
  ELSE IF LengthPanics(r.errors)
  THEN Exec(Panicked, {"fatal", "success", "errors"}, calls, <<>>)
  ELSE Exec(Returned(FALSE,
                     [isNil |-> FALSE, valid |-> Bool(r.success),
                      errors |-> CollectErrors(r.errors.elems, 0, <<>>)],
                     NoError),
            {"fatal", "success", "errors"}, calls, <<>>)

\* variant that calls the validator whatever MarshalJSON returned
ValidateOrder_IgnoresMarshalError(order, r) ==
  LET m == MarshalJSON(order) IN ValidateOrderJSON(m.data, r)

\* Filter.ValidateOrder
ValidateOrder(order, r) ==
  LET m == MarshalJSON(order) IN
  IF m.err # NoError
  THEN Exec(Returned(FALSE, NilResult, m.err), {}, <<>>, <<>>)
  ELSE ValidateOrderJSON(m.data, r)

\* variant that returns true whenever validation ran without an error
MatchOrder_IgnoresValid(order, r) ==
  LET e == ValidateOrder(order, r) IN
  IF e.ret.status = "panic" THEN e
  ELSE IF e.ret.err # NoError
  THEN [e EXCEPT !.ret = Returned(FALSE, NilResult, e.ret.err)]
  ELSE [e EXCEPT !.ret = Returned(TRUE, NilResult, NoError)]

\* Filter.MatchOrder
MatchOrder(order, r) ==
  LET e == ValidateOrder(order, r) IN
  IF e.ret.status = "panic" THEN e
  ELSE IF e.ret.err # NoError
  THEN [e EXCEPT !.ret = Returned(FALSE, NilResult, e.ret.err)]
  ELSE [e EXCEPT !.ret = Returned(e.ret.result.valid, NilResult, NoError)]

\* Filter.MatchOrderMessageJSON
MatchOrderMessageJSON(messageJSON, r) ==
  LET calls == <<EngineCall("messageValidator", messageJSON)>> IN
  IF GetPanics(r) THEN Exec(Panicked, {}, calls, <<>>)
  ELSE IF ~IsNullOrUndefined(r.fatal)
  THEN Exec(Returned(FALSE, NilResult, JsErrorf(String(r.fatal))), {"fatal"}, calls, <<>>)
  ELSE IF BoolPanics(r.success) THEN Exec(Panicked, {"fatal", "success"}, calls, <<>>)
  ELSE Exec(Returned(Bool(r.success), NilResult, NoError), {"fatal", "success"}, calls, <<>>)

\* log.WithError(err).Error("MatchOrderMessageJSON returned an error")
LogEntry(err) == [msg |-> "MatchOrderMessageJSON returned an error", error |-> err]

\* variant that also writes a log entry when the message is rejected
ValidatePubSubMessage_LogsRejection(msg, r) ==
  LET e == MatchOrderMessageJSON(msg.Data, r) IN
  IF e.ret.status = "panic" THEN e
  ELSE IF e.ret.err # NoError
  THEN [e EXCEPT !.ret = Returned(FALSE, NilResult, NoError),
                 !.logged = Append(e.logged, LogEntry(e.ret.err))]
  ELSE IF ~e.ret.bool
  THEN [e EXCEPT !.ret = Returned(FALSE, NilResult, NoError),
                 !.logged = Append(e.logged, LogEntry(<<"message rejected">>))]
  ELSE [e EXCEPT !.ret = Returned(e.ret.bool, NilResult, NoError)]

\* Filter.ValidatePubSubMessage
ValidatePubSubMessage(msg, r) ==
  LET e == MatchOrderMessageJSON(msg.Data, r) IN
  IF e.ret.status = "panic" THEN e
  ELSE IF e.ret.err # NoError
  THEN [e EXCEPT !.ret = Returned(FALSE, NilResult, NoError),
                 !.logged = Append(e.logged, LogEntry(e.ret.err))]
  ELSE [e EXCEPT !.ret = Returned(e.ret.bool, NilResult, NoError)]

\* ------------------------------------------------------------------ state
VARIABLES
  op,        \* the operation called last ("none" before the first call)
  order,     \* its *zeroex.SignedOrder argument, when it takes one
  data,      \* its document argument (msg.Data for the pubsub validator)
  jsResult,  \* what the validator function returned to it, or NotCalled
  ret,       \* what it handed back
  reads,     \* the fields of jsResult it read
  calls,     \* the validator calls it made
  logged,    \* the log entries it wrote
  pc,        \* per worker: where its ValidatePubSubMessage call stands
  wMsg,      \* per worker: the *pubsub.Message being validated
  wGiven,    \* per worker: what the validator function returned to its call
  wJsResult, \* per worker: local jsResult
  wErr,      \* per worker: local err
  wIsValid,  \* per worker: local isValid
  wRet,      \* per worker: the boolean returned to pubsub
  log,       \* the entries the workers wrote to the shared logger
  crashed    \* an unrecovered panic ended the process

seqVars == <<op, order, data, jsResult, ret, reads, calls, logged>>
workerVars == <<pc, wMsg, wGiven, wJsResult, wErr, wIsValid, wRet, log, crashed>>
vars == <<seqVars, workerVars>>

Workers == 1..NumWorkers

NoOrder == [maker |-> "", encodable |-> FALSE]
NoData == <<>>
NoMessage == [from |-> "", Data |-> NoData]

SeqInit ==
  /\ op = "none"
  /\ order = NoOrder
  /\ data = NoData
  /\ jsResult = NotCalled
  /\ ret = Returned(FALSE, NilResult, NoError)
  /\ reads = {}
  /\ calls = <<>>
  /\ logged = <<>>

WorkerInit ==
  /\ pc = [w \in Workers |-> "idle"]
  /\ wMsg = [w \in Workers |-> NoMessage]
  /\ wGiven = [w \in Workers |-> NotCalled]
  /\ wJsResult = [w \in Workers |-> NotCalled]
  /\ wErr = [w \in Workers |-> NoError]
  /\ wIsValid = [w \in Workers |-> FALSE]
  /\ wRet = [w \in Workers |-> FALSE]
  /\ log = {}
  /\ crashed = FALSE

Init == SeqInit /\ WorkerInit

\* Each action is one call of an exported method: r is what the validator
\* function answers if the call reaches it.  After a panic the process is
\* gone and nothing more is called.
CallValidateOrderJSON ==
  /\ ret.status # "panic"
  /\ \E d \in Documents, r \in Responses :
       LET e == ValidateOrderJSON(d, r) IN
       /\ op' = "ValidateOrderJSON"
       /\ order' = NoOrder
       /\ data' = d
       /\ jsResult' = IF e.calls = <<>> THEN NotCalled ELSE r
       /\ ret' = e.ret
       /\ reads' = e.reads
       /\ calls' = e.calls
       /\ logged' = e.logged
  /\ UNCHANGED workerVars

CallValidateOrder ==
  /\ ret.status # "panic"
  /\ \E o \in Orders, r \in Responses :
       LET e == ValidateOrder(o, r) IN
       /\ op' = "ValidateOrder"
       /\ order' = o
       /\ data' = NoData
       /\ jsResult' = IF e.calls = <<>> THEN NotCalled ELSE r
       /\ ret' = e.ret
       /\ reads' = e.reads
       /\ calls' = e.calls
       /\ logged' = e.logged
  /\ UNCHANGED workerVars

CallMatchOrder ==
  /\ ret.status # "panic"
  /\ \E o \in Orders, r \in Responses :
       LET e == MatchOrder(o, r) IN
       /\ op' = "MatchOrder"
       /\ order' = o
       /\ data' = NoData
       /\ jsResult' = IF e.calls = <<>> THEN NotCalled ELSE r
       /\ ret' = e.ret
       /\ reads' = e.reads
       /\ calls' = e.calls
       /\ logged' = e.logged
  /\ UNCHANGED workerVars

CallMatchOrderMessageJSON ==
  /\ ret.status # "panic"
  /\ \E d \in Documents, r \in Responses :
       LET e == MatchOrderMessageJSON(d, r) IN
       /\ op' = "MatchOrderMessageJSON"
       /\ order' = NoOrder
       /\ data' = d
       /\ jsResult' = IF e.calls = <<>> THEN NotCalled ELSE r
       /\ ret' = e.ret
       /\ reads' = e.reads
       /\ calls' = e.calls
       /\ logged' = e.logged
  /\ UNCHANGED workerVars

CallValidatePubSubMessage ==
  /\ ret.status # "panic"
  /\ \E m \in Messages, r \in Responses :
       LET e == ValidatePubSubMessage(m, r) IN
       /\ op' = "ValidatePubSubMessage"
       /\ order' = NoOrder
       /\ data' = m.Data
       /\ jsResult' = IF e.calls = <<>> THEN NotCalled ELSE r
       /\ ret' = e.ret
       /\ reads' = e.reads
       /\ calls' = e.calls
       /\ logged' = e.logged
  /\ UNCHANGED workerVars

Next ==
  \/ CallValidateOrderJSON
  \/ CallValidateOrder
  \/ CallMatchOrder
  \/ CallMatchOrderMessageJSON
  \/ CallValidatePubSubMessage

Spec == Init /\ [][Next]_vars

\* ------------------------------------------------- concurrent validations
\* pubsub runs ValidatePubSubMessage on several goroutines at once.  Each
\* call is followed step by step; the locals of a call are those of its
\* goroutine.

\* variant that keeps jsResult in one place shared by all goroutines
StoreResult_Shared(w, r) == [x \in Workers |-> r]

\* jsResult := js.Global().Call("messageValidator", ...) in goroutine w
StoreResult(w, r) == [wJsResult EXCEPT ![w] = r]

\* an unrecovered panic in any goroutine ends the process
Crash(w) ==
  /\ crashed' = TRUE
  /\ pc' = [pc EXCEPT ![w] = "panicked"]

\* pubsub hands a message to an idle dispatch worker
Receive(w) ==
  /\ ~crashed
  /\ pc[w] = "idle"
  /\ \E m \in WorkerMessages : wMsg' = [wMsg EXCEPT ![w] = m]
  /\ pc' = [pc EXCEPT ![w] = "call"]
  /\ UNCHANGED <<wGiven, wJsResult, wErr, wIsValid, wRet, log, crashed, seqVars>>

\* MatchOrderMessageJSON: the call of messageValidator
CallValidator(w) ==
  /\ ~crashed
  /\ pc[w] = "call"
  /\ \E r \in WorkerResponses :
       /\ wGiven' = [wGiven EXCEPT ![w] = r]
       /\ wJsResult' = StoreResult(w, r)
  /\ pc' = [pc EXCEPT ![w] = "fatal"]
  /\ UNCHANGED <<wMsg, wErr, wIsValid, wRet, log, crashed, seqVars>>

\* MatchOrderMessageJSON: jsResult.Get("fatal") and the test on it
CheckFatal(w) ==
  /\ ~crashed
  /\ pc[w] = "fatal"
  /\ IF GetPanics(wJsResult[w])
     THEN Crash(w) /\ UNCHANGED <<wErr>>
     ELSE IF ~IsNullOrUndefined(wJsResult[w].fatal)
     THEN /\ wErr' = [wErr EXCEPT ![w] = JsErrorf(String(wJsResult[w].fatal))]
          /\ pc' = [pc EXCEPT ![w] = "returned"]
          /\ UNCHANGED crashed
     ELSE /\ pc' = [pc EXCEPT ![w] = "success"]
          /\ UNCHANGED <<wErr, crashed>>
  /\ UNCHANGED <<wMsg, wGiven, wJsResult, wIsValid, wRet, log, seqVars>>

\* MatchOrderMessageJSON: return jsResult.Get("success").Bool(), nil
ReadSuccess(w) ==
  /\ ~crashed
  /\ pc[w] = "success"
  /\ IF BoolPanics(wJsResult[w].success)
     THEN Crash(w) /\ UNCHANGED <<wIsValid>>
     ELSE /\ wIsValid' = [wIsValid EXCEPT ![w] = Bool(wJsResult[w].success)]
          /\ pc' = [pc EXCEPT ![w] = "returned"]
          /\ UNCHANGED crashed
  /\ UNCHANGED <<wMsg, wGiven, wJsResult, wErr, wRet, log, seqVars>>

\* ValidatePubSubMessage: the test on err, the log entry and the return
Decide(w) ==
  /\ ~crashed
  /\ pc[w] = "returned"
  /\ IF wErr[w] # NoError
     THEN /\ log' = log \cup {LogEntry(wErr[w])}
          /\ wRet' = [wRet EXCEPT ![w] = FALSE]
     ELSE /\ wRet' = [wRet EXCEPT ![w] = wIsValid[w]]
          /\ UNCHANGED log
  /\ pc' = [pc EXCEPT ![w] = "done"]
  /\ UNCHANGED <<wMsg, wGiven, wJsResult, wErr, wIsValid, crashed, seqVars>>

\* pubsub took the decision; the goroutine's frame is gone
Release(w) ==
  /\ ~crashed
  /\ pc[w] = "done"
  /\ pc' = [pc EXCEPT ![w] = "idle"]
  /\ wMsg' = [wMsg EXCEPT ![w] = NoMessage]
  /\ wGiven' = [wGiven EXCEPT ![w] = NotCalled]
  /\ wJsResult' = [wJsResult EXCEPT ![w] = NotCalled]
  /\ wErr' = [wErr EXCEPT ![w] = NoError]
  /\ wIsValid' = [wIsValid EXCEPT ![w] = FALSE]
  /\ wRet' = [wRet EXCEPT ![w] = FALSE]
  /\ UNCHANGED <<log, crashed, seqVars>>

WorkerNext ==
  \/ \E w \in Workers : Receive(w)
  \/ \E w \in Workers : CallValidator(w)
  \/ \E w \in Workers : CheckFatal(w)
  \/ \E w \in Workers : ReadSuccess(w)
  \/ \E w \in Workers : Decide(w)
  \/ \E w \in Workers : Release(w)

WorkerSpec == Init /\ [][WorkerNext]_vars

\* ------------------------------------------------------------- properties
\* the last call reached the validator function
EngineAnswered == calls # <<>>
\* the validator's answer carries a fatal indicator
FatalIndicator(r) == r.isObject /\ r.fatal.t \notin {"undefined", "null", "none"}
\* the validator's answer has no fatal indicator and a boolean success flag
Reports(r, flag) ==
  /\ r.isObject
  /\ r.fatal.t \in {"undefined", "null"}
  /\ r.success = [t |-> "boolean", v |-> flag]
\* the text of the Go error made from one item of the errors array
ErrorTextOf(item) ==
  IF item.t = "string" THEN <<"js error: ", item.v>>
  ELSE <<"js error: ", "<", item.t, ": ", item.v, ">">>
\* piece occurs in text
Mentions(text, piece) == \E i \in 1..Len(text) : text[i] = piece

\* C1: ValidatePubSubMessage never raises: whatever the validator function
\* answers, the call completes and returns a boolean.
C1_NeverRaises ==
  op = "ValidatePubSubMessage" => ret.status = "return"

\* C2: when the validator's answer carries a fatal indicator, ValidateOrderJSON,
\* ValidateOrder, MatchOrder and MatchOrderMessageJSON return an error, no
\* result and no true, and do not read the success and errors fields.
C2_FatalIsError ==
  (/\ op \in {"ValidateOrderJSON", "ValidateOrder", "MatchOrder", "MatchOrderMessageJSON"}
   /\ EngineAnswered
   /\ FatalIndicator(jsResult))
  => /\ ret.status = "return"
     /\ ret.err # NoError
     /\ ret.result = NilResult
     /\ ret.bool = FALSE
     /\ reads \cap {"success", "errors"} = {}

C2_Witness ==
  /\ op = "MatchOrder"
  /\ EngineAnswered
  /\ FatalIndicator(jsResult)
  /\ ret.err = <<"js error: ", "engine not initialized">>

\* C3: for every answer without a fatal indicator that has a success flag,
\* MatchOrderMessageJSON and MatchOrder return exactly that flag and no error,
\* and ValidatePubSubMessage returns the same boolean.
C3_ReturnsSuccessFlag ==
  \A flag \in {"true", "false"} :
    (/\ op \in {"MatchOrderMessageJSON", "MatchOrder", "ValidatePubSubMessage"}
     /\ EngineAnswered
     /\ Reports(jsResult, flag))
    => /\ ret.status = "return"
       /\ ret.err = NoError
       /\ ret.bool = (flag = "true")

\* C4: when the validator reports success=false with a non-empty errors array
\* and no fatal, the match functions return false and the result of
\* ValidateOrderJSON and ValidateOrder has as many errors as the array, the
\* i-th made from the i-th item.
C4_ErrorsPreserved ==
  (/\ op \in {"ValidateOrderJSON", "ValidateOrder", "MatchOrder", "MatchOrderMessageJSON"}
   /\ EngineAnswered
   /\ Reports(jsResult, "false")
   /\ jsResult.errors.t = "object"
   /\ jsResult.errors.elems # <<>>)
  => /\ ret.status = "return"
     /\ ret.err = NoError
     /\ IF op \in {"MatchOrder", "MatchOrderMessageJSON"}
        THEN ret.bool = FALSE
        ELSE /\ ~ret.result.isNil
             /\ ret.result.valid = FALSE
             /\ ret.result.errors # <<>>
             /\ Len(ret.result.errors) = Len(jsResult.errors.elems)
             /\ \A i \in 1..Len(jsResult.errors.elems) :
                  ret.result.errors[i] = ErrorTextOf(jsResult.errors.elems[i])

C4_Witness ==
  /\ op = "ValidateOrderJSON"
  /\ Reports(jsResult, "false")
  /\ jsResult.errors.t = "object"
  /\ Len(jsResult.errors.elems) = 2
  /\ jsResult.errors.elems[1] # jsResult.errors.elems[2]
  /\ Len(ret.result.errors) = 2

\* C5: for an order that serializes, MatchOrder returns the boolean, and an
\* error in the same cases, that ValidateOrderJSON gives on the serialized
\* order for the same answer of the validator.
C5_MatchOrderConsistent ==
  (op = "MatchOrder" /\ MarshalJSON(order).err = NoError)
  => LET direct == ValidateOrderJSON(MarshalJSON(order).data, jsResult).ret IN
     /\ ret.status = direct.status
     /\ ret.err = direct.err
     /\ (direct.status = "return" /\ direct.err = NoError)
          => ret.bool = direct.result.valid

C5_Witness ==
  /\ op = "MatchOrder"
  /\ MarshalJSON(order).err = NoError
  /\ Reports(jsResult, "true")
  /\ ret.status = "return"
  /\ ret.bool = TRUE

\* C6: every result returned by ValidateOrderJSON or ValidateOrder that is
\* valid has no errors.
C6_ValidHasNoErrors ==
  (/\ op \in {"ValidateOrderJSON", "ValidateOrder"}
   /\ ret.status = "return"
   /\ ~ret.result.isNil
   /\ ret.result.valid)
  => ret.result.errors = <<>>

\* the answer to a pubsub message is success=false, no fatal, and an errors
\* array that names the field makerAddress
RejectsNamingField ==
  /\ op = "ValidatePubSubMessage"
  /\ EngineAnswered
  /\ Reports(jsResult, "false")
  /\ jsResult.errors.t = "object"
  /\ \E i \in 1..Len(jsResult.errors.elems) :
       jsResult.errors.elems[i] = JsString("missing field: makerAddress")

\* C7 as stated: on such an answer ValidatePubSubMessage returns false and
\* logs a diagnostic that contains the field name.
C7_RejectionIsLogged ==
  RejectsNamingField
  => /\ ret.status = "return"
     /\ ret.bool = FALSE
     /\ \E i \in 1..Len(logged) :
          Mentions(logged[i].error, "missing field: makerAddress")

\* C7 as amended: on such an answer ValidatePubSubMessage returns false,
\* writes no log entry and does not read the errors array.
C7_RejectionIsSilent ==
  RejectsNamingField
  => /\ ret.status = "return"
     /\ ret.bool = FALSE
     /\ logged = <<>>
     /\ "errors" \notin reads

C7_Witness ==
  /\ RejectsNamingField
  /\ ret.status = "return"
  /\ ret.bool = FALSE

\* C8: when MarshalJSON fails, ValidateOrder and MatchOrder return its error
\* and make no call of the validator; a call of the validator is made only
\* with the bytes of a successful MarshalJSON.
C8_NoEngineCallOnMarshalError ==
  op \in {"ValidateOrder", "MatchOrder"}
  => /\ MarshalJSON(order).err # NoError
          => /\ ret.status = "return"
             /\ ret.err = MarshalJSON(order).err
             /\ ret.result = NilResult
             /\ calls = <<>>
             /\ reads = {}
     /\ calls # <<>>
          => /\ MarshalJSON(order).err = NoError
             /\ calls = <<[fn |-> "orderValidator", arg |-> MarshalJSON(order).data]>>

C8_Witness ==
  /\ op = "MatchOrder"
  /\ ~order.encodable
  /\ ret.err # NoError
  /\ calls = <<>>

\* C9: with the workers interleaved in any way, the decision of each call is
\* the one ValidatePubSubMessage gives alone on that call's message and that
\* call's answer from the validator, and an idle worker holds nothing of an
\* earlier call.
C9_DecisionsIsolated ==
  \A w \in Workers :
    /\ pc[w] = "done"
         => LET alone == ValidatePubSubMessage(wMsg[w], wGiven[w]) IN
            /\ alone.ret.status = "return"
            /\ wRet[w] = alone.ret.bool
    /\ pc[w] = "idle"
         => /\ wJsResult[w] = NotCalled
            /\ wErr[w] = NoError
            /\ wIsValid[w] = FALSE

C9_Witness ==
  \E w1 \in Workers, w2 \in Workers :
    /\ w1 # w2
    /\ pc[w1] = "done"
    /\ wRet[w1] = TRUE
    /\ pc[w2] = "done"
    /\ wRet[w2] = FALSE
    /\ FatalIndicator(wGiven[w2])
    /\ log # {}

\* C10: when the validator reports success=false with an empty errors array
\* and no fatal, ValidateOrderJSON and ValidateOrder return a result with
\* valid=false and no errors, and no error; MatchOrder returns false.
C10_NoSynthesizedError ==
  (/\ op \in {"ValidateOrderJSON", "ValidateOrder", "MatchOrder"}
   /\ EngineAnswered
   /\ Reports(jsResult, "false")
   /\ jsResult.errors = [t |-> "object", elems |-> <<>>])
  => /\ ret.status = "return"
     /\ ret.err = NoError
     /\ IF op = "MatchOrder"
        THEN ret.bool = FALSE
        ELSE ret.result = [isNil |-> FALSE, valid |-> FALSE, errors |-> <<>>]

C10_Witness ==
  /\ op = "ValidateOrderJSON"
  /\ Reports(jsResult, "false")
  /\ jsResult.errors = [t |-> "object", elems |-> <<>>]
  /\ ret.result = [isNil |-> FALSE, valid |-> FALSE, errors |-> <<>>]

====
